---- MODULE Spec2Model ----
(***************************************************************************)
(* Model of the happiness dashboard's data pipeline.                       *)
(*                                                                         *)
(*   src/app.py                 load_happiness, load_life, load_peace and  *)
(*                              build_merged (two sequential left joins)   *)
(*                              with the memos of st.cache_data, over one  *)
(*                              run of the script and over several         *)
(*   src/Fa1z_dashboard/app.py  normalize_cols and the script's check of   *)
(*                              the required columns                       *)
(*                                                                         *)
(* A table is a sequence of rows, a row a function from column name to     *)
(* cell.  A cell is a tuple: <<>> is pandas' NaN (a missing value), a      *)
(* tuple of characters is a string, <<n>> is the integer n and <<m, e>>    *)
(* the decimal m / 10^e.                                                   *)
(***************************************************************************)
EXTENDS Integers, Sequences, FiniteSets, TLC

VARIABLES
    pc,             \* position of build_merged: which call comes next
    happyFile,      \* contents of World-happiness-report-2024.csv
    lifeFile,       \* contents of "life expectancy.csv"
    peaceFile,      \* contents of peace_index.csv: [cols, rows]
    h,              \* build_merged: h = load_happiness(happy_path)
    l,              \* build_merged: l = load_life(life_path)
    p,              \* build_merged: p = load_peace(peace_path)
    sel,            \* load_peace: [best_col, best_non_null, fallback] at the end of the scan
    hl,             \* build_merged: h.merge(l, on="Country", how="left")
    merged,         \* build_merged: the table returned
    absent,         \* the paths at which there is no file
    cache           \* st.cache_data: per function <<>> or <<the value memoized>>

mvars == <<pc, happyFile, lifeFile, peaceFile, h, l, p, sel, hl, merged,
           absent, cache>>

VARIABLES
    dpc,            \* position of the script of src/Fa1z_dashboard/app.py
    rawFile,        \* the uploaded or default CSV: [found, cols, rows]
    raw,            \* raw = load_csv(...)
    mapping,        \* normalize_cols: mapping, raw header -> canonical name
    df,             \* df = normalize_cols(raw)
    missing,        \* missing: the required columns df does not have
    f               \* f: the rows of df left by the sidebar filters

dvars == <<dpc, rawFile, raw, mapping, df, missing, f>>

vars == <<mvars, dvars>>

----------------------------------------------------------------------------
(* Bounds of the model.                                                    *)

MaxHappyRows     == 2    \* rows of the happiness file
MaxSecondaryRows == 2    \* rows of a secondary file merged onto it
MaxLifeRows      == 3    \* rows of the life-expectancy file, load_life alone
MaxPeaceRows     == 2    \* rows of the peace-index file, load_peace alone
MaxPeaceCands    == 3    \* candidate columns of the peace-index file
MaxHeaders       == 2    \* columns of a CSV drawn from every alias spelling
MaxRows          == 1    \* rows of a CSV of the dashboard's usual columns

----------------------------------------------------------------------------
(* Cells.                                                                  *)

NaN == <<>>
IsNaN(x) == x = NaN

Countries == {<<"A">>, <<"B">>}
CountryCells == Countries \cup {NaN}

\* Python's order on the country strings; sort_values puts missing keys last.
CountryRank(c) == CASE c = <<"A">> -> 1 [] c = <<"B">> -> 2 [] OTHER -> 3

----------------------------------------------------------------------------
(* Helpers on sequences.                                                   *)

RECURSIVE KeepIdx(_, _, _)
\* the elements of s at the indices i >= from that belong to idx, in order
KeepIdx(s, idx, from) ==
    IF from > Len(s) THEN <<>>
    ELSE (IF from \in idx THEN <<s[from]>> ELSE <<>>) \o KeepIdx(s, idx, from + 1)

RECURSIVE Flatten(_)
Flatten(ss) == IF ss = <<>> THEN <<>> ELSE Head(ss) \o Flatten(Tail(ss))

SeqsUpTo(S, n) == UNION {[1..k -> S] : k \in 0..n}

----------------------------------------------------------------------------
(* DataFrame.rename(columns=m): m is a function from old to new names;     *)
(* names outside its domain are kept.                                      *)

NewName(m, c) == IF c \in DOMAIN m THEN m[c] ELSE c

RenameRow(row, m) ==
    [c \in {NewName(m, k) : k \in DOMAIN row} |->
        row[CHOOSE k \in DOMAIN row : NewName(m, k) = c]]

Rename(t, m) == [i \in 1..Len(t) |-> RenameRow(t[i], m)]

----------------------------------------------------------------------------
(* load_happiness                                                          *)

HappyColumns ==
    ("Country name" :> "Country") @@ ("Regional indicator" :> "H_Region") @@
    ("Ladder score" :> "Happiness_Score") @@
    ("Log GDP per capita" :> "Log_GDP_per_capita") @@
    ("Social support" :> "Social_support") @@
    ("Healthy life expectancy" :> "Healthy_life_expectancy") @@
    ("Freedom to make life choices" :> "Freedom") @@
    ("Generosity" :> "Generosity") @@
    ("Perceptions of corruption" :> "Corruption") @@
    ("Dystopia + residual" :> "Dystopia_residual")

\* Series.rank(ascending=False, method="min"): one more than the number of
\* greater scores; a NaN score has the rank NaN.
Rank(t, i) ==
    IF IsNaN(t[i]["Happiness_Score"]) THEN NaN
    ELSE <<1 + Cardinality({j \in 1..Len(t) :
                /\ ~IsNaN(t[j]["Happiness_Score"])
                /\ t[j]["Happiness_Score"][1] > t[i]["Happiness_Score"][1]})>>

\* .astype(int) raises on a NaN rank
RankRaises(t) == \E i \in 1..Len(t) : IsNaN(Rank(t, i))

load_happiness(file) ==
    LET t == Rename(file, HappyColumns)
    IN  [i \in 1..Len(t) |-> t[i] @@ ("Happiness_Rank" :> Rank(t, i))]

----------------------------------------------------------------------------
(* load_life                                                               *)

\* sort_values(["Country", "Year"]): ascending, missing values last
CellLess(a, b) == ~IsNaN(a) /\ (IsNaN(b) \/ a[1] < b[1])

RowLess(a, b) ==
    \/ CountryRank(a["Country"]) < CountryRank(b["Country"])
    \/ /\ a["Country"] = b["Country"]
       /\ CellLess(a["Year"], b["Year"])

RECURSIVE Insert(_, _)
\* r goes after every row that is not greater than it: the sort is stable
Insert(sorted, r) ==
    IF sorted = <<>> THEN <<r>>
    ELSE IF RowLess(r, Head(sorted)) THEN <<r>> \o sorted
    ELSE <<Head(sorted)>> \o Insert(Tail(sorted), r)

RECURSIVE SortValues(_)
SortValues(t) ==
    IF t = <<>> THEN <<>>
    ELSE Insert(SortValues(SubSeq(t, 1, Len(t) - 1)), t[Len(t)])

\* groupby("Country").head(1) in the place of tail(1): the first row of every group
GroupHead(t) ==
    KeepIdx(t, {i \in 1..Len(t) :
                    /\ ~IsNaN(t[i]["Country"])
                    /\ \A j \in 1..(i - 1) : t[j]["Country"] # t[i]["Country"]}, 1)

\* groupby("Country").tail(1).reset_index(drop=True): the last row of every
\* group, in the frame's order; groupby (dropna=True) leaves out the rows
\* without a key.
GroupTail(t) ==
    KeepIdx(t, {i \in 1..Len(t) :
                    /\ ~IsNaN(t[i]["Country"])
                    /\ \A j \in (i + 1)..Len(t) : t[j]["Country"] # t[i]["Country"]}, 1)

LifeColumns ==
    ("Region" :> "WB_Region") @@ ("IncomeGroup" :> "Income_Group") @@
    ("Life Expectancy World Bank" :> "Life_Expectancy") @@
    ("Health Expenditure %" :> "Health_Expenditure_pct") @@
    ("Education Expenditure %" :> "Education_Expenditure_pct") @@
    ("Prevelance of Undernourishment" :> "Undernourishment_pct") @@
    ("CO2" :> "CO2_emissions") @@ ("Unemployment" :> "Unemployment_pct")

load_life(file) ==
    LET t      == Rename(file, "Country Name" :> "Country")
        latest == GroupTail(SortValues(t))
    IN  Rename(latest, LifeColumns)

----------------------------------------------------------------------------
(* load_peace                                                              *)

Digits == {"0", "1", "2", "3", "4", "5", "6", "7", "8", "9"}

DigitVal(ch) ==
    CASE ch = "0" -> 0 [] ch = "1" -> 1 [] ch = "2" -> 2 [] ch = "3" -> 3
      [] ch = "4" -> 4 [] ch = "5" -> 5 [] ch = "6" -> 6 [] ch = "7" -> 7
      [] ch = "8" -> 8 [] ch = "9" -> 9

\* Series.astype(str): a missing value becomes the string "nan"
AsStr(cell) == IF IsNaN(cell) THEN <<"n", "a", "n">> ELSE cell

\* Series.str.replace(",", "."): every comma
StrReplace(s) == [i \in 1..Len(s) |-> IF s[i] = "," THEN "." ELSE s[i]]

RECURSIVE Mantissa(_)
\* the integer spelled by the digits of s, its points left out
Mantissa(s) ==
    IF s = <<>> THEN 0
    ELSE IF s[Len(s)] = "." THEN Mantissa(SubSeq(s, 1, Len(s) - 1))
    ELSE 10 * Mantissa(SubSeq(s, 1, Len(s) - 1)) + DigitVal(s[Len(s)])

\* pd.to_numeric(errors="coerce") of one string: digits with at most one
\* point parse, "nan" and every other string give NaN
ToNumeric(s) ==
    LET points == {i \in 1..Len(s) : s[i] = "."}
        digits == {i \in 1..Len(s) : s[i] \in Digits}
    IN  IF /\ points \cup digits = 1..Len(s)
           /\ digits # {}
           /\ Cardinality(points) <= 1
        THEN <<Mantissa(s), IF points = {} THEN 0
                            ELSE Len(s) - (CHOOSE i \in points : TRUE)>>
        ELSE NaN

\* pd.to_numeric(df[c].astype(str).str.replace(",", "."), errors="coerce")
Coerce(cell) == ToNumeric(StrReplace(AsStr(cell)))

\* s.notna().sum() for the column c
NonNull(rows, c) == Cardinality({i \in 1..Len(rows) : ~IsNaN(Coerce(rows[i][c]))})

None == "None"

RECURSIVE ScanLast(_, _, _, _)
\* the loop with >= in the place of >: the last of the most filled columns
ScanLast(rows, candidates, k, best) ==
    IF k > Len(candidates) THEN best
    ELSE LET c        == candidates[k]
             non_null == NonNull(rows, c)
         IN  IF non_null >= best.best_non_null
             THEN ScanLast(rows, candidates, k + 1,
                           [best_col |-> c, best_non_null |-> non_null])
             ELSE ScanLast(rows, candidates, k + 1, best)

RECURSIVE Scan(_, _, _, _)
\* the for loop over the candidates from the k-th on
Scan(rows, candidates, k, best) ==
    IF k > Len(candidates) THEN best
    ELSE LET c        == candidates[k]
             non_null == NonNull(rows, c)
         IN  IF non_null > best.best_non_null
             THEN Scan(rows, candidates, k + 1,
                       [best_col |-> c, best_non_null |-> non_null])
             ELSE Scan(rows, candidates, k + 1, best)

\* the names of the frame's columns after the first was renamed
PeaceColumns(file) ==
    [i \in 1..Len(file.cols) |-> IF i = 1 THEN "Country" ELSE file.cols[i]]

PeaceRows(file) == Rename(file.rows, file.cols[1] :> "Country")

\* best_non_null starting at 0 in the place of -1: a column with no number
\* is never the best
SelectColumnFromZero(file) ==
    LET columns == PeaceColumns(file)
        best    == Scan(PeaceRows(file), Tail(columns), 1,
                        [best_col |-> None, best_non_null |-> 0])
    IN  [best_col      |-> best.best_col,
         best_non_null |-> best.best_non_null,
         source        |-> IF best.best_col # None THEN best.best_col
                           ELSE columns[Len(columns)]]

\* best_col and best_non_null after the loop, and the column Peace_Score is
\* read from: best_col, or the frame's last column when best_col is None
SelectColumn(file) ==
    LET columns == PeaceColumns(file)
        best    == Scan(PeaceRows(file), Tail(columns), 1,
                        [best_col |-> None, best_non_null |-> -1])
    IN  [best_col      |-> best.best_col,
         best_non_null |-> best.best_non_null,
         source        |-> IF best.best_col # None THEN best.best_col
                           ELSE columns[Len(columns)]]

load_peace(file) ==
    LET t      == PeaceRows(file)
        source == SelectColumn(file).source
    IN  [i \in 1..Len(t) |->
            ("Country" :> t[i]["Country"]) @@
            ("Peace_Score" :> Coerce(t[i][source]))]

----------------------------------------------------------------------------
(* DataFrame.merge(right, on="Country", how="left"): the left rows in      *)
(* order, each once per right row of its Country (missing keys match each  *)
(* other), or once with NaN in right's columns when there is none.         *)

Matches(right, key) == SelectSeq(right, LAMBDA r : r["Country"] = key)

NullRow(columns) == [c \in columns |-> NaN]

\* how="inner" in the place of how="left": a row without a match is dropped
JoinRowInner(left_row, right, columns) ==
    LET m == Matches(right, left_row["Country"])
    IN  [k \in 1..Len(m) |-> left_row @@ m[k]]

JoinRow(left_row, right, columns) ==
    LET m == Matches(right, left_row["Country"])
    IN  IF m = <<>> THEN <<left_row @@ NullRow(columns)>>
        ELSE [k \in 1..Len(m) |-> left_row @@ m[k]]

LeftMerge(left, right, columns) ==
    Flatten([i \in 1..Len(left) |-> JoinRow(left[i], right, columns)])

----------------------------------------------------------------------------
(* The files.                                                              *)

HappyRow(c, s) == ("Country name" :> c) @@ ("Ladder score" :> s)

LifeRow(c, y, v) ==
    ("Country Name" :> c) @@ ("Year" :> y) @@ ("Life Expectancy World Bank" :> v)

PeaceHeader == <<"country", "2021", "2022", "2023", "2024">>

PeaceFiles(countries, cells, cands, n) ==
    UNION {LET cols == SubSeq(PeaceHeader, 1, 1 + k)
           IN  {[cols |-> cols, rows |-> rows] :
                    rows \in SeqsUpTo({r \in [{cols[i] : i \in 1..Len(cols)} -> countries \cup cells] :
                                          /\ r[cols[1]] \in countries
                                          /\ \A i \in 2..Len(cols) : r[cols[i]] \in cells}, n)}
           : k \in cands}

None3 == [best_col |-> None, best_non_null |-> -1, source |-> None]

HAPPINESS_PATH == "World-happiness-report-2024.csv"
LIFE_PATH      == "life expectancy.csv"
PEACE_PATH     == "peace_index.csv"

Paths == {HAPPINESS_PATH, LIFE_PATH, PEACE_PATH}

\* @st.cache_data: every function is called with one argument list only (the
\* paths are constants), so its memo is empty or holds one value
NoCache ==
    [load_happiness |-> <<>>, load_life |-> <<>>, load_peace |-> <<>>,
     build_merged |-> <<>>]

Cached(fn) == cache[fn] # <<>>

NoFrame == [cols |-> <<>>, rows |-> <<>>]
NoFile  == [found |-> FALSE, cols |-> <<>>, rows |-> <<>>]

\* the other script is not running
DashIdle ==
    /\ dpc = "idle"
    /\ rawFile = NoFile
    /\ raw = NoFrame /\ df = NoFrame /\ f = NoFrame
    /\ mapping = <<>> /\ missing = <<>>

\* the first run of the script in a new server process
InitRun ==
    /\ pc = "load_happiness"
    /\ h = <<>> /\ l = <<>> /\ p = <<>> /\ hl = <<>> /\ merged = <<>>
    /\ sel = None3
    /\ cache = NoCache
    /\ DashIdle

OnePeaceRow(v) ==
    [cols |-> <<"country", "2021">>,
     rows |-> <<("country" :> <<"A">>) @@ ("2021" :> v)>>]

\* one or more of the three files are not there; the others hold one row
InitAbsent ==
    /\ absent \in (SUBSET Paths) \ {{}}
    /\ happyFile = IF HAPPINESS_PATH \in absent THEN <<>>
                   ELSE <<HappyRow(<<"A">>, <<5>>)>>
    /\ lifeFile = IF LIFE_PATH \in absent THEN <<>>
                  ELSE <<LifeRow(<<"A">>, <<2020>>, <<80>>)>>
    /\ peaceFile = IF PEACE_PATH \in absent THEN NoFrame
                   ELSE OnePeaceRow(<<"2">>)

\* a happiness file whose one score is missing or not
HappySamples == {<<HappyRow(<<"A">>, s)>> : s \in {NaN, <<5>>}}

\* what read_csv makes of the life-expectancy column: numbers when every cell
\* parses, and the cells' text when one does not (here the text "x" throughout)
LifeValue(text) == IF text THEN <<"x">> ELSE <<80>>

\* build_merged on files of all three kinds; keys may be missing or repeated
Init ==
    /\ \/ /\ absent = {}
          /\ happyFile \in SeqsUpTo({HappyRow(c, <<5>>) : c \in CountryCells}
                                      \cup {HappyRow(<<"A">>, NaN)}, MaxHappyRows)
          /\ \E text \in BOOLEAN :
                lifeFile \in SeqsUpTo({LifeRow(c, <<2020>>, LifeValue(text)) :
                                          c \in CountryCells}, MaxSecondaryRows)
          /\ peaceFile \in PeaceFiles(Countries, {<<"2">>}, {1}, MaxSecondaryRows)
       \/ InitAbsent
    /\ InitRun

\* build_merged on every life-expectancy file of the bounds
InitLife ==
    /\ \/ /\ absent = {}
          /\ happyFile \in HappySamples
          /\ lifeFile \in SeqsUpTo({LifeRow(c, y, v) :
                                      c \in Countries,
                                      y \in {NaN, <<2019>>, <<2020>>, <<2021>>},
                                      v \in {<<70>>, <<80>>}}, MaxLifeRows)
          /\ peaceFile = OnePeaceRow(NaN)
       \/ InitAbsent
    /\ InitRun

\* build_merged on every peace-index file of the bounds
InitPeace ==
    /\ \/ /\ absent = {}
          /\ happyFile \in HappySamples
          /\ lifeFile = <<LifeRow(<<"A">>, <<2020>>, <<80>>)>>
          /\ peaceFile \in PeaceFiles({<<"A">>}, {<<"x">>, <<"1", ",", "9">>},
                                      0..MaxPeaceCands, MaxPeaceRows)
       \/ InitAbsent
    /\ InitRun

----------------------------------------------------------------------------
(* build_merged, call by call.                                             *)

\* the call returns load_happiness's memo when there is one, and otherwise
\* reads the file and memoizes what it returns
LoadHappiness ==
    /\ pc = "load_happiness"
    /\ ~Cached("load_happiness") =>
          /\ HAPPINESS_PATH \notin absent
          /\ ~RankRaises(Rename(happyFile, HappyColumns))
    /\ h' = IF Cached("load_happiness") THEN cache.load_happiness[1]
            ELSE load_happiness(happyFile)
    /\ cache' = [cache EXCEPT !.load_happiness = <<h'>>]
    /\ pc' = "load_life"
    /\ UNCHANGED <<happyFile, lifeFile, peaceFile, absent, l, p, sel, hl, merged>>
    /\ UNCHANGED dvars

\* pd.read_csv raises FileNotFoundError: build_merged returns nothing
LoadHappinessFails ==
    /\ pc = "load_happiness"
    /\ ~Cached("load_happiness")
    /\ HAPPINESS_PATH \in absent
    /\ pc' = "raised"
    /\ UNCHANGED <<happyFile, lifeFile, peaceFile, absent, cache, h, l, p, sel, hl, merged>>
    /\ UNCHANGED dvars

\* astype(int) raises: build_merged returns nothing
LoadHappinessRaises ==
    /\ pc = "load_happiness"
    /\ ~Cached("load_happiness")
    /\ HAPPINESS_PATH \notin absent
    /\ RankRaises(Rename(happyFile, HappyColumns))
    /\ pc' = "raised"
    /\ UNCHANGED <<happyFile, lifeFile, peaceFile, absent, cache, h, l, p, sel, hl, merged>>
    /\ UNCHANGED dvars

LoadLife ==
    /\ pc = "load_life"
    /\ ~Cached("load_life") => LIFE_PATH \notin absent
    /\ l' = IF Cached("load_life") THEN cache.load_life[1] ELSE load_life(lifeFile)
    /\ cache' = [cache EXCEPT !.load_life = <<l'>>]
    /\ pc' = "load_peace"
    /\ UNCHANGED <<happyFile, lifeFile, peaceFile, absent, h, p, sel, hl, merged>>
    /\ UNCHANGED dvars

\* pd.read_csv raises FileNotFoundError: build_merged returns nothing
LoadLifeFails ==
    /\ pc = "load_life"
    /\ ~Cached("load_life")
    /\ LIFE_PATH \in absent
    /\ pc' = "raised"
    /\ UNCHANGED <<happyFile, lifeFile, peaceFile, absent, cache, h, l, p, sel, hl, merged>>
    /\ UNCHANGED dvars

\* sel is the scan's result when the function's body runs
LoadPeace ==
    /\ pc = "load_peace"
    /\ ~Cached("load_peace") => PEACE_PATH \notin absent
    /\ sel' = IF Cached("load_peace") THEN sel ELSE SelectColumn(peaceFile)
    /\ p' = IF Cached("load_peace") THEN cache.load_peace[1] ELSE load_peace(peaceFile)
    /\ cache' = [cache EXCEPT !.load_peace = <<p'>>]
    /\ pc' = "merge"
    /\ UNCHANGED <<happyFile, lifeFile, peaceFile, absent, h, l, hl, merged>>
    /\ UNCHANGED dvars

\* pd.read_csv raises FileNotFoundError: build_merged returns nothing
LoadPeaceFails ==
    /\ pc = "load_peace"
    /\ ~Cached("load_peace")
    /\ PEACE_PATH \in absent
    /\ pc' = "raised"
    /\ UNCHANGED <<happyFile, lifeFile, peaceFile, absent, cache, h, l, p, sel, hl, merged>>
    /\ UNCHANGED dvars

LifeFields == {"Year", "Life_Expectancy"}
PeaceFields == {"Peace_Score"}

NumericCols ==
    <<"Happiness_Score", "Log_GDP_per_capita", "Social_support",
      "Healthy_life_expectancy", "Freedom", "Generosity", "Corruption",
      "Dystopia_residual", "Life_Expectancy", "Health_Expenditure_pct",
      "Education_Expenditure_pct", "Undernourishment_pct", "CO2_emissions",
      "Unemployment_pct", "Peace_Score">>

\* numeric_cols = [c for c in numeric_cols if c in merged.columns], the
\* columns being those of the table's rows
numeric_cols(t) ==
    SelectSeq(NumericCols, LAMBDA c : \E k \in 1..Len(t) : c \in DOMAIN t[k])

\* the two joins; what build_merged returns is memoized
Merge ==
    /\ pc = "merge"
    /\ hl' = LeftMerge(h, l, LifeFields)
    /\ merged' = LeftMerge(LeftMerge(h, l, LifeFields), p, PeaceFields)
    /\ cache' = [cache EXCEPT !.build_merged = <<merged'>>]
    /\ pc' = "done"
    /\ UNCHANGED <<happyFile, lifeFile, peaceFile, absent, h, l, p, sel>>
    /\ UNCHANGED dvars

Next ==
    \/ LoadHappiness
    \/ LoadHappinessFails
    \/ LoadHappinessRaises
    \/ LoadLife
    \/ LoadLifeFails
    \/ LoadPeace
    \/ LoadPeaceFails
    \/ Merge

Spec      == Init /\ [][Next]_vars
SpecLife  == InitLife /\ [][Next]_vars
SpecPeace == InitPeace /\ [][Next]_vars

----------------------------------------------------------------------------
(* The script run again.  Streamlit runs the script anew on every          *)
(* interaction, in the same server process: the memos of st.cache_data     *)
(* stay, while the files may have been written or deleted in between.      *)

HappyVersions == {<<HappyRow(<<"A">>, s)>> : s \in {NaN, <<5>>, <<6>>}}
LifeVersions  == {<<LifeRow(<<"A">>, y, <<80>>)>> : y \in {<<2020>>, <<2021>>}}
PeaceVersions == {OnePeaceRow(v) : v \in {<<"2">>, <<"3">>}}

InitRuns ==
    /\ \/ /\ absent = {}
          /\ happyFile \in HappyVersions
          /\ lifeFile \in LifeVersions
          /\ peaceFile \in PeaceVersions
       \/ InitAbsent
    /\ InitRun

\* build_merged is not running: it returned, raised, or a file changed since
BetweenRuns == pc \in {"done", "raised", "changed"}

WriteHappy ==
    /\ BetweenRuns
    /\ \E v \in HappyVersions :
          /\ HAPPINESS_PATH \in absent \/ v # happyFile
          /\ happyFile' = v
    /\ absent' = absent \ {HAPPINESS_PATH}
    /\ pc' = "changed"
    /\ UNCHANGED <<lifeFile, peaceFile, cache, h, l, p, sel, hl, merged>>
    /\ UNCHANGED dvars

WriteLife ==
    /\ BetweenRuns
    /\ \E v \in LifeVersions :
          /\ LIFE_PATH \in absent \/ v # lifeFile
          /\ lifeFile' = v
    /\ absent' = absent \ {LIFE_PATH}
    /\ pc' = "changed"
    /\ UNCHANGED <<happyFile, peaceFile, cache, h, l, p, sel, hl, merged>>
    /\ UNCHANGED dvars

WritePeace ==
    /\ BetweenRuns
    /\ \E v \in PeaceVersions :
          /\ PEACE_PATH \in absent \/ v # peaceFile
          /\ peaceFile' = v
    /\ absent' = absent \ {PEACE_PATH}
    /\ pc' = "changed"
    /\ UNCHANGED <<happyFile, lifeFile, cache, h, l, p, sel, hl, merged>>
    /\ UNCHANGED dvars

DeleteFile ==
    /\ BetweenRuns
    /\ \E path \in Paths \ absent :
          /\ absent' = absent \cup {path}
          /\ happyFile' = IF path = HAPPINESS_PATH THEN <<>> ELSE happyFile
          /\ lifeFile' = IF path = LIFE_PATH THEN <<>> ELSE lifeFile
          /\ peaceFile' = IF path = PEACE_PATH THEN NoFrame ELSE peaceFile
    /\ pc' = "changed"
    /\ UNCHANGED <<cache, h, l, p, sel, hl, merged>>
    /\ UNCHANGED dvars

\* the script calls build_merged and there is no memo of it: its body runs
BuildMergedAgain ==
    /\ BetweenRuns
    /\ ~Cached("build_merged")
    /\ pc' = "load_happiness"
    /\ h' = <<>> /\ l' = <<>> /\ p' = <<>> /\ hl' = <<>> /\ merged' = <<>>
    /\ sel' = None3
    /\ UNCHANGED <<happyFile, lifeFile, peaceFile, absent, cache>>
    /\ UNCHANGED dvars

\* the script calls build_merged and is given its memo: no loader is called
BuildMergedCached ==
    /\ BetweenRuns
    /\ Cached("build_merged")
    /\ merged' = cache.build_merged[1]
    /\ pc' = "done"
    /\ h' = <<>> /\ l' = <<>> /\ p' = <<>> /\ hl' = <<>>
    /\ sel' = None3
    /\ UNCHANGED <<happyFile, lifeFile, peaceFile, absent, cache>>
    /\ UNCHANGED dvars

NextRuns ==
    \/ Next
    \/ WriteHappy
    \/ WriteLife
    \/ WritePeace
    \/ DeleteFile
    \/ BuildMergedAgain
    \/ BuildMergedCached

SpecRuns == InitRuns /\ [][NextRuns]_vars

----------------------------------------------------------------------------
(* src/Fa1z_dashboard/app.py: column names.                                *)
(*                                                                         *)
(* A column name is [text, caps, pad]: its letters in lower case, the      *)
(* positions of the letters it has in upper case, and the number of blanks *)
(* around it: "Country name" is [text |-> "country name", caps |-> {1},    *)
(* pad |-> 0].  Two names are the same string exactly when the records are *)
(* equal.                                                                  *)

H(text, caps) == [text |-> text, caps |-> caps, pad |-> 0]

\* the name as it is, in the place of c.lower(): a lookup that minds the case
LowerNot(c) == c

\* str.lower()
Lower(c) == [c EXCEPT !.caps = {}]

\* str.strip()
Strip(c) == [c EXCEPT !.pad = 0]

\* pick's None; like the empty string it is false in "if country:"
NoColumn == H("", {})

Country        == H("country", {1})
Year           == H("year", {1})
Region         == H("region", {1})
HappinessScore == H("happinessscore", {1, 10})
GDPperCapita   == H("gdppercapita", {1, 2, 3, 7})
SocialSupport  == H("socialsupport", {1, 7})
HealthyLife    == H("healthylife", {1, 8})
Freedom        == H("freedom", {1})
Generosity     == H("generosity", {1})
Corruption     == H("corruption", {1})

\* the table with "score" as the last candidate of gdp as well: one header
\* is then picked for two fields
AliasTableShared == <<
    [name |-> Country,
     cands |-> <<"country name", "country", "countryname", "name">>],
    [name |-> Year, cands |-> <<"year">>],
    [name |-> Region,
     cands |-> <<"regional indicator", "region", "regional_indicator",
                 "subregion", "continent">>],
    [name |-> HappinessScore,
     cands |-> <<"ladder score", "life ladder", "happiness score", "score">>],
    [name |-> GDPperCapita,
     cands |-> <<"logged gdp per capita", "gdp per capita",
                 "log gdp per capita", "score">>],
    [name |-> SocialSupport, cands |-> <<"social support", "social_support">>],
    [name |-> HealthyLife,
     cands |-> <<"healthy life expectancy at birth", "healthy life expectancy",
                 "life expectancy">>],
    [name |-> Freedom, cands |-> <<"freedom to make life choices", "freedom">>],
    [name |-> Generosity, cands |-> <<"generosity">>],
    [name |-> Corruption,
     cands |-> <<"perceptions of corruption", "corruption">>] >>

\* the calls of pick and the names their results are mapped to, in the
\* order of the assignments to mapping
AliasTable == <<
    [name |-> Country,
     cands |-> <<"country name", "country", "countryname", "name">>],
    [name |-> Year,
     cands |-> <<"year">>],
    [name |-> Region,
     cands |-> <<"regional indicator", "region", "regional_indicator",
                 "subregion", "continent">>],
    [name |-> HappinessScore,
     cands |-> <<"ladder score", "life ladder", "happiness score", "score">>],
    [name |-> GDPperCapita,
     cands |-> <<"logged gdp per capita", "gdp per capita",
                 "log gdp per capita", "gdp">>],
    [name |-> SocialSupport,
     cands |-> <<"social support", "social_support">>],
    [name |-> HealthyLife,
     cands |-> <<"healthy life expectancy at birth", "healthy life expectancy",
                 "life expectancy">>],
    [name |-> Freedom,
     cands |-> <<"freedom to make life choices", "freedom">>],
    [name |-> Generosity,
     cands |-> <<"generosity">>],
    [name |-> Corruption,
     cands |-> <<"perceptions of corruption", "corruption">>] >>

numeric == <<HappinessScore, GDPperCapita, SocialSupport, HealthyLife,
             Freedom, Generosity, Corruption>>

required == <<Country, Region, HappinessScore>>

Unknown == <<"U", "n", "k", "n", "o", "w", "n">>

----------------------------------------------------------------------------
(* load_csv and normalize_cols.  A frame is [cols, rows]: the column names *)
(* in order and, per row, the cells in the order of the columns.           *)

load_csv(file) == [cols |-> [i \in 1..Len(file.cols) |-> Strip(file.cols[i])],
                   rows |-> file.rows]

Positions(cols, c) == {i \in 1..Len(cols) : cols[i] = c}

Has(cols, c) == Positions(cols, c) # {}

\* low = {c.lower(): c for c in df.columns}: of the columns with the same
\* lower-case name the last one stays
low(cols) ==
    [k \in {Lower(cols[i]) : i \in 1..Len(cols)} |->
        cols[CHOOSE i \in 1..Len(cols) :
                /\ Lower(cols[i]) = k
                /\ \A j \in (i + 1)..Len(cols) : Lower(cols[j]) # k]]

RECURSIVE pickLaterFrom(_, _, _)
\* pick going on after a match: the last spelling found wins
pickLaterFrom(lw, cands, k) ==
    IF k > Len(cands) THEN NoColumn
    ELSE LET later == pickLaterFrom(lw, cands, k + 1)
         IN  IF later # NoColumn THEN later
             ELSE IF H(cands[k], {}) \in DOMAIN lw THEN lw[H(cands[k], {})]
             ELSE NoColumn

RECURSIVE pickFrom(_, _, _)
pickFrom(lw, cands, k) ==
    IF k > Len(cands) THEN NoColumn
    ELSE IF H(cands[k], {}) \in DOMAIN lw THEN lw[H(cands[k], {})]
    ELSE pickFrom(lw, cands, k + 1)

pick(lw, cands) == pickFrom(lw, cands, 1)

RECURSIVE MappingFrom(_, _, _)
\* the assignments "if x: mapping[x] = name" from the k-th on
MappingFrom(lw, k, map) ==
    IF k > Len(AliasTable) THEN map
    ELSE LET x == pick(lw, AliasTable[k].cands)
         IN  MappingFrom(lw, k + 1,
                IF x # NoColumn
                THEN [c \in DOMAIN map \cup {x} |->
                        IF c = x THEN AliasTable[k].name ELSE map[c]]
                ELSE map)

Mapping(cols) == MappingFrom(low(cols), 1, <<>>)

\* df.rename(columns=mapping)
Renamed(cols, map) ==
    [i \in 1..Len(cols) |-> IF cols[i] \in DOMAIN map THEN map[cols[i]] ELSE cols[i]]

\* pd.to_numeric(df[c], errors="coerce") of one cell
to_numeric(cell) == IF IsNaN(cell) THEN NaN ELSE ToNumeric(cell)

NumericPresent(cols) == {k \in 1..Len(numeric) : Has(cols, numeric[k])}

\* df[c] of a name that two columns carry is a frame, and pd.to_numeric
\* raises TypeError on it
NormalizeRaises(table) ==
    \E k \in NumericPresent(Renamed(table.cols, Mapping(table.cols))) :
        Cardinality(Positions(Renamed(table.cols, Mapping(table.cols)), numeric[k])) > 1

normalize_cols(table) ==
    LET cols    == Renamed(table.cols, Mapping(table.cols))
        isNum   == {i \in 1..Len(cols) : \E k \in 1..Len(numeric) : cols[i] = numeric[k]}
        coerced == [r \in 1..Len(table.rows) |->
                       [i \in 1..Len(cols) |->
                           IF i \in isNum THEN to_numeric(table.rows[r][i])
                           ELSE table.rows[r][i]]]
        addYear   == ~Has(cols, Year)
        addRegion == ~Has(cols, Region)
        added   == (IF addYear THEN <<Year>> ELSE <<>>) \o
                   (IF addRegion THEN <<Region>> ELSE <<>>)
        fill    == (IF addYear THEN <<NaN>> ELSE <<>>) \o
                   (IF addRegion THEN <<Unknown>> ELSE <<>>)
    IN  [cols |-> cols \o added,
         rows |-> [r \in 1..Len(coerced) |-> coerced[r] \o fill]]

\* missing = [c for c in required if c not in df.columns]
Missing(cols) == SelectSeq(required, LAMBDA c : ~Has(cols, c))

----------------------------------------------------------------------------
(* The CSV files of the dashboard.                                         *)

\* the case the k-th spelling of a field is written in
CapsOf(k) == CASE k = 1 -> {1} [] k = 2 -> {} [] k = 3 -> {1, 2} [] k = 4 -> {2} [] OTHER -> {1}

\* every spelling of every field, each in one case
AliasHeaders ==
    UNION {{H(AliasTable[a].cands[k], CapsOf(k)) : k \in 1..Len(AliasTable[a].cands)} :
              a \in 1..Len(AliasTable)}

\* "SCORE" beside "sCore", the canonical names "HappinessScore" and
\* "Country" as raw headers, and "Ladder score " with a blank after it
OtherHeaders ==
    {H("score", {1, 2, 3, 4, 5}), HappinessScore, Country,
     [text |-> "ladder score", caps |-> {1}, pad |-> 1]}

Distinct(cols) == \A i, j \in 1..Len(cols) : cols[i] = cols[j] => i = j

\* a CSV of one to MaxHeaders columns named with any of the spellings, and
\* no row (read_csv does not return a frame without columns)
AliasFile(file) ==
    \E cols \in SeqsUpTo(AliasHeaders \cup OtherHeaders, MaxHeaders) :
        /\ cols # <<>>
        /\ Distinct(cols)
        /\ file = [found |-> TRUE, cols |-> cols, rows |-> <<>>]

\* the columns a happiness CSV usually has, and a column already named
\* HappinessScore
UsualHeaders ==
    <<H("country name", {1}), H("regional indicator", {1}),
      H("ladder score", {1}), H("year", {}), HappinessScore>>

\* the cells a column of a usual CSV may hold: text or nothing for the
\* country and the region, text or a number for the others
CellsOf(c) ==
    IF c \in {H("country name", {1}), H("regional indicator", {1})}
    THEN {NaN, <<"x">>}
    ELSE {<<"x">>, <<"5">>}

\* a CSV of any of the usual columns, in their order, with up to MaxRows rows
UsualFile(file) ==
    \E S \in (SUBSET (1..Len(UsualHeaders))) \ {{}} :
        LET cols == KeepIdx(UsualHeaders, S, 1)
        IN  \E rows \in SeqsUpTo({r \in [1..Len(cols) -> {NaN, <<"x">>, <<"5">>}] :
                                     \A i \in 1..Len(cols) : r[i] \in CellsOf(cols[i])},
                                 MaxRows) :
                file = [found |-> TRUE, cols |-> cols, rows |-> rows]

MergeIdle ==
    /\ pc = "idle"
    /\ happyFile = <<>> /\ lifeFile = <<>> /\ peaceFile = NoFrame
    /\ h = <<>> /\ l = <<>> /\ p = <<>> /\ hl = <<>> /\ merged = <<>>
    /\ sel = None3
    /\ absent = {} /\ cache = NoCache

InitDash ==
    /\ \/ AliasFile(rawFile)
       \/ UsualFile(rawFile)
       \/ rawFile = NoFile
    /\ dpc = "load_csv"
    /\ raw = NoFrame /\ df = NoFrame /\ f = NoFrame
    /\ mapping = <<>> /\ missing = <<>>
    /\ MergeIdle

----------------------------------------------------------------------------
(* The script of src/Fa1z_dashboard/app.py, stage by stage.                *)

LoadCsv ==
    /\ dpc = "load_csv"
    /\ rawFile.found
    /\ raw' = load_csv(rawFile)
    /\ dpc' = "normalize"
    /\ UNCHANGED <<rawFile, mapping, df, missing, f>>
    /\ UNCHANGED mvars

\* nothing uploaded and no file at DEFAULT_PATH: st.warning, st.stop
LoadCsvFails ==
    /\ dpc = "load_csv"
    /\ ~rawFile.found
    /\ dpc' = "no_file"
    /\ UNCHANGED <<rawFile, raw, mapping, df, missing, f>>
    /\ UNCHANGED mvars

Normalize ==
    /\ dpc = "normalize"
    /\ ~NormalizeRaises(raw)
    /\ mapping' = Mapping(raw.cols)
    /\ df' = normalize_cols(raw)
    /\ dpc' = "check"
    /\ UNCHANGED <<rawFile, raw, missing, f>>
    /\ UNCHANGED mvars

\* pd.to_numeric raises after mapping was built: the script ends
NormalizeTypeError ==
    /\ dpc = "normalize"
    /\ NormalizeRaises(raw)
    /\ mapping' = Mapping(raw.cols)
    /\ dpc' = "TypeError"
    /\ UNCHANGED <<rawFile, raw, df, missing, f>>
    /\ UNCHANGED mvars

\* if missing: st.error, st.stop
CheckStops ==
    /\ dpc = "check"
    /\ Missing(df.cols) # <<>>
    /\ missing' = Missing(df.cols)
    /\ dpc' = "missing_columns"
    /\ UNCHANGED <<rawFile, raw, mapping, df, f>>
    /\ UNCHANGED mvars

CheckPasses ==
    /\ dpc = "check"
    /\ Missing(df.cols) = <<>>
    /\ missing' = <<>>
    /\ dpc' = "filters"
    /\ UNCHANGED <<rawFile, raw, mapping, df, f>>
    /\ UNCHANGED mvars

Column(t, c) == CHOOSE i \in 1..Len(t.cols) : t.cols[i] = c

IsInt(cell) == cell # <<>> /\ \A i \in 1..Len(cell) : cell[i] \in Digits

\* df["Region"] or df["Year"] of a name two columns carry is a frame, which
\* has no unique() and no truth value; int(y) raises on a Year that is no
\* number
FiltersRaise(t) ==
    \/ Cardinality(Positions(t.cols, Region)) > 1
    \/ Cardinality(Positions(t.cols, Year)) > 1
    \/ \E r \in 1..Len(t.rows) :
          /\ ~IsNaN(t.rows[r][Column(t, Year)])
          /\ ~IsInt(t.rows[r][Column(t, Year)])

\* sorted(df["Region"].dropna().unique().tolist())
all_regions(t) ==
    {t.rows[r][Column(t, Region)] : r \in 1..Len(t.rows)} \ {NaN}

\* df[df["Region"].isin(sel_regions)], the year left at "(All)"
Filtered(t, sel_regions) ==
    [cols |-> t.cols,
     rows |-> SelectSeq(t.rows, LAMBDA row : row[Column(t, Region)] \in sel_regions)]

FiltersError ==
    /\ dpc = "filters"
    /\ FiltersRaise(df)
    /\ dpc' = "filters_raised"
    /\ UNCHANGED <<rawFile, raw, mapping, df, missing, f>>
    /\ UNCHANGED mvars

\* the user selects regions; with rows left the tabs are drawn
Filters ==
    /\ dpc = "filters"
    /\ ~FiltersRaise(df)
    /\ \E sel_regions \in SUBSET all_regions(df) :
          /\ f' = Filtered(df, sel_regions)
          /\ Filtered(df, sel_regions).rows # <<>>
    /\ dpc' = "tabs"
    /\ UNCHANGED <<rawFile, raw, mapping, df, missing>>
    /\ UNCHANGED mvars

\* if f.empty: st.warning, st.stop
FiltersEmpty ==
    /\ dpc = "filters"
    /\ ~FiltersRaise(df)
    /\ \E sel_regions \in SUBSET all_regions(df) :
          /\ f' = Filtered(df, sel_regions)
          /\ Filtered(df, sel_regions).rows = <<>>
    /\ dpc' = "no_rows"
    /\ UNCHANGED <<rawFile, raw, mapping, df, missing>>
    /\ UNCHANGED mvars

\* the metrics, charts and tables of the four tabs
Tabs ==
    /\ dpc = "tabs"
    /\ dpc' = "done"
    /\ UNCHANGED <<rawFile, raw, mapping, df, missing, f>>
    /\ UNCHANGED mvars

NextDash ==
    \/ LoadCsv
    \/ LoadCsvFails
    \/ Normalize
    \/ NormalizeTypeError
    \/ CheckStops
    \/ CheckPasses
    \/ FiltersError
    \/ Filters
    \/ FiltersEmpty
    \/ Tabs

SpecDash == InitDash /\ [][NextDash]_vars

----------------------------------------------------------------------------
(* Claims about build_merged and its loaders.                              *)

LifeLoaded  == pc \in {"load_peace", "merge", "done"}
PeaceLoaded == pc \in {"merge", "done"}

\* C1: the table build_merged returns has exactly as many rows as the
\* happiness table, whatever the secondary files hold, repeated Countries
\* included.
C1_RowCountPreserved == pc = "done" => Len(merged) = Len(h)

RECURSIVE Offset(_, _, _)
\* where the output rows of the i-th left row begin in left.merge(right)
Offset(left, right, i) ==
    IF i = 1 THEN 1
    ELSE LET n == Len(Matches(right, left[i - 1]["Country"]))
         IN  Offset(left, right, i - 1) + (IF n = 0 THEN 1 ELSE n)

\* the i-th left row, having at most one right row of its Country, is in the
\* output with its own cells unchanged and with that right row's cells, or
\* NaN where there is none
Attached(left, right, out, columns, i) ==
    LET m == Matches(right, left[i]["Country"])
        k == Offset(left, right, i)
    IN  Len(m) <= 1 =>
            /\ k <= Len(out)
            /\ DOMAIN out[k] = DOMAIN left[i] \cup columns
            /\ \A c \in DOMAIN left[i] : out[k][c] = left[i][c]
            /\ \A c \in columns :
                    out[k][c] = IF m = <<>> THEN NaN ELSE m[1][c]

\* C2: in both joins a primary row without a secondary row of its Country is
\* kept with NaN in the secondary's columns, one with exactly one secondary
\* row carries that row's values, and its own cells are unchanged.
C2_SecondaryAttached ==
    pc = "done" =>
        /\ \A i \in 1..Len(h) : Attached(h, l, hl, LifeFields, i)
        /\ \A i \in 1..Len(hl) : Attached(hl, p, merged, PeaceFields, i)

C2_Witness ==
    /\ pc = "done"
    /\ \E i, j \in 1..Len(h) :
        /\ Matches(l, h[i]["Country"]) = <<>>
        /\ Len(Matches(l, h[j]["Country"])) = 1
        /\ Len(Matches(p, h[i]["Country"])) = 1
        /\ Matches(p, h[j]["Country"]) = <<>>

FileRowsOf(c) == {i \in 1..Len(lifeFile) : lifeFile[i]["Country Name"] = c}

AllDated == \A i \in 1..Len(lifeFile) : ~IsNaN(lifeFile[i]["Year"])

\* the row of l that is the i-th row of the file
IsFileRow(row, i) ==
    /\ row["Country"] = lifeFile[i]["Country Name"]
    /\ row["Year"] = lifeFile[i]["Year"]
    /\ row["Life_Expectancy"] = lifeFile[i]["Life Expectancy World Bank"]

\* C3: when every row of the life-expectancy file has a Year, load_life
\* returns exactly one row per distinct Country, and it is a row of the file
\* for that Country with the greatest Year of that Country.
C3_LatestYearPerCountry ==
    (LifeLoaded /\ AllDated) =>
        /\ \A c \in Countries :
              Cardinality({k \in 1..Len(l) : l[k]["Country"] = c})
                  = IF FileRowsOf(c) = {} THEN 0 ELSE 1
        /\ \A k \in 1..Len(l) :
              \E i \in FileRowsOf(l[k]["Country"]) :
                  /\ IsFileRow(l[k], i)
                  /\ \A j \in FileRowsOf(l[k]["Country"]) :
                        lifeFile[j]["Year"][1] <= lifeFile[i]["Year"][1]

C3_Witness ==
    /\ LifeLoaded
    /\ Len(lifeFile) = 3
    /\ \A i \in 1..3 : lifeFile[i]["Country Name"] = <<"A">>
    /\ lifeFile[1]["Year"] = <<2019>>
    /\ lifeFile[2]["Year"] = <<2021>>
    /\ lifeFile[3]["Year"] = <<2020>>
    /\ Len(l) = 1
    /\ l[1]["Year"] = <<2021>>

\* C4: a row without a Year is never the row load_life keeps for a Country
\* that also has a row with a Year.
C4_UndatedSuperseded ==
    LifeLoaded =>
        \A k \in 1..Len(l) :
            IsNaN(l[k]["Year"]) =>
                \A i \in FileRowsOf(l[k]["Country"]) : IsNaN(lifeFile[i]["Year"])

\* the number of cells of the file's k-th column that coerce to a number
Filled(k) == NonNull(peaceFile.rows, peaceFile.cols[k])

Candidates == 2..Len(peaceFile.cols)

\* C5: the column Peace_Score is read from is the candidate with the most
\* cells that coerce to a number, the leftmost of them when several have
\* the most.
C5_MostFilledLeftmost ==
    (PeaceLoaded /\ Candidates # {}) =>
        \E k \in Candidates :
            /\ sel.source = peaceFile.cols[k]
            /\ \A j \in Candidates : Filled(j) <= Filled(k)
            /\ \A j \in Candidates : j < k => Filled(j) < Filled(k)
            /\ \A i \in 1..Len(p) :
                  p[i]["Peace_Score"] = Coerce(peaceFile.rows[i][peaceFile.cols[k]])

\* counts {0, 1, 1} at the candidates, the second of them selected
C5_Witness ==
    /\ PeaceLoaded
    /\ Len(peaceFile.cols) = 4
    /\ Filled(2) = 0 /\ Filled(3) = 1 /\ Filled(4) = 1
    /\ sel.source = peaceFile.cols[3]

AllEmpty == \A k \in Candidates : Filled(k) = 0

\* C6 as stated: when each of two or more candidates has no cell that
\* coerces to a number, Peace_Score is read from the table's last column.
C6_LastColumnWhenAllEmpty ==
    (PeaceLoaded /\ Len(peaceFile.cols) >= 3 /\ AllEmpty) =>
        sel.source = peaceFile.cols[Len(peaceFile.cols)]

\* C6 amended: when each of two or more candidates has no cell that coerces
\* to a number, Peace_Score is read from the first candidate (the table's
\* second column); the last-column branch is taken only when the table has
\* no candidate column.
C6_FirstCandidateWhenAllEmpty ==
    PeaceLoaded =>
        /\ (Len(peaceFile.cols) >= 3 /\ AllEmpty) =>
              /\ sel.best_col = peaceFile.cols[2]
              /\ sel.source = peaceFile.cols[2]
        /\ sel.best_col = None <=> Candidates = {}
        /\ Candidates = {} => sel.source = "Country"

C6_Witness ==
    /\ PeaceLoaded
    /\ Len(peaceFile.cols) >= 3
    /\ Len(peaceFile.rows) >= 1
    /\ AllEmpty
    /\ sel.source = peaceFile.cols[2]

----------------------------------------------------------------------------
(* Claims about normalize_cols and the check of the required columns.      *)

\* mapping was built by normalize_cols
Mapped == dpc \notin {"idle", "load_csv", "no_file", "normalize"}

\* normalize_cols returned
Normalized == Mapped /\ dpc # "TypeError"

\* the check of the required columns was made
Checked == Normalized /\ dpc # "check"

\* the header c spells the k-th candidate of the a-th field, in any case
Spells(c, a, k) == c.text = AliasTable[a].cands[k] /\ c.pad = 0

SpelledBy(a, k) == {i \in 1..Len(raw.cols) : Spells(raw.cols[i], a, k)}

Spelled(a) == UNION {SpelledBy(a, k) : k \in 1..Len(AliasTable[a].cands)}

MappedTo(name) == {c \in DOMAIN mapping : mapping[c] = name}

\* C7: when the raw headers hold one spelling of a field, in any letter
\* case, and no other header spells a candidate of that field,
\* normalize_cols renames exactly that header to the field's canonical name.
C7_AnySpellingAnyCase ==
    Mapped =>
        \A a \in 1..Len(AliasTable) :
            \A i \in 1..Len(raw.cols) :
                Spelled(a) = {i} =>
                    /\ MappedTo(AliasTable[a].name) = {raw.cols[i]}
                    /\ Normalized => df.cols[i] = AliasTable[a].name

\* a header in another case than the spelling, of a spelling that is not
\* the field's first, renamed
C7_Witness ==
    /\ Normalized
    /\ \E a \in 1..Len(AliasTable) :
         \E k \in 2..Len(AliasTable[a].cands) :
            \E i \in 1..Len(raw.cols) :
                /\ Spelled(a) = {i}
                /\ SpelledBy(a, k) = {i}
                /\ raw.cols[i].caps # {}
                /\ df.cols[i] = AliasTable[a].name
                /\ raw.cols[i] # AliasTable[a].name

\* C8: of several headers spelling candidates of one field only one that
\* spells the earliest of these candidates is mapped to the field's name,
\* the headers spelling later candidates are not renamed, and a field none
\* of whose candidates is spelled is absent from the mapping, with no
\* exception raised for it.
C8_EarliestCandidateWins ==
    Mapped =>
        /\ \A a \in 1..Len(AliasTable) :
              LET ks == {k \in 1..Len(AliasTable[a].cands) : SpelledBy(a, k) # {}}
              IN  IF ks = {} THEN MappedTo(AliasTable[a].name) = {}
                  ELSE LET k0 == CHOOSE k \in ks : \A j \in ks : k <= j
                       IN  /\ \E i \in SpelledBy(a, k0) :
                                 MappedTo(AliasTable[a].name) = {raw.cols[i]}
                           /\ \A i \in Spelled(a) \ SpelledBy(a, k0) :
                                 /\ raw.cols[i] \notin DOMAIN mapping
                                 /\ Normalized => df.cols[i] = raw.cols[i]
        /\ (mapping = <<>> /\ Distinct(raw.cols)) => dpc # "TypeError"

\* "Country" beside "Country name": the second stays as it is
C8_Witness ==
    /\ Normalized
    /\ \E a \in {x \in 1..Len(AliasTable) : Len(AliasTable[x].cands) >= 2} :
         \E i, j \in 1..Len(raw.cols) :
            /\ i < j
            /\ SpelledBy(a, 2) = {i}
            /\ SpelledBy(a, 1) = {j}
            /\ df.cols[j] = AliasTable[a].name
            /\ df.cols[i] = raw.cols[i]
            /\ df.cols[i] # AliasTable[a].name

\* the required names none of whose spellings is among the raw headers
Unresolved ==
    SelectSeq(required,
              LAMBDA c : \A a \in 1..Len(AliasTable) :
                            AliasTable[a].name = c => Spelled(a) = {})

\* C9: when Country, Region or HappinessScore has no alias among the raw
\* headers, the script stops at the check, before the filters, and missing
\* lists exactly the required names that were not resolved.
C9_HaltsOnUnresolvedRequired ==
    (Checked /\ Unresolved # <<>>) =>
        /\ dpc = "missing_columns"
        /\ missing = Unresolved

\* C10: in every row of the table normalize_cols returns, Region is a
\* string and not null: "Unknown" where the source gives no Region, be it
\* for want of a Region column or for an empty cell.
C10_RegionNeverNull ==
    Normalized =>
        \A i \in Positions(df.cols, Region) :
            \A r \in 1..Len(df.rows) : ~IsNaN(df.rows[r][i])

----------------------------------------------------------------------------
(* Claims about the cells and the columns of the tables returned.          *)

\* the characters the cells of the files are written with
Alphabet == Digits \cup {"x", ",", ".", "A", "B", "U", "n", "k", "o", "w"}

IsChar(v) == ToString(v) \in {ToString(ch) : ch \in Alphabet}

\* the cell is a string, not a number and not NaN
IsText(cell) == cell # <<>> /\ \A i \in 1..Len(cell) : IsChar(cell[i])

IsMetric(c) == \E n \in 1..Len(NumericCols) : NumericCols[n] = c

\* C11: in the table build_merged returns and in the table normalize_cols
\* returns, every cell of every metric column is a number or NaN: no string
\* read from a file is left in a metric column.
C11_MetricCellsNumericOrNull ==
    /\ pc = "done" =>
          \A k \in 1..Len(merged) :
              \A c \in DOMAIN merged[k] : IsMetric(c) => ~IsText(merged[k][c])
    /\ Normalized =>
          \A i \in 1..Len(df.cols) :
              (\E n \in 1..Len(numeric) : numeric[n] = df.cols[i]) =>
                  \A r \in 1..Len(df.rows) : ~IsText(df.rows[r][i])

\* C12: the table normalize_cols returns has a column for every canonical
\* field, whatever the headers of the file: a metric field none of whose
\* spellings is among the headers is a column of NaN, not a missing column.
C12_ColumnSetStable ==
    Normalized =>
        \A a \in 1..Len(AliasTable) :
            /\ Has(df.cols, AliasTable[a].name)
            /\ (Spelled(a) = {} /\ \E n \in 1..Len(numeric) : numeric[n] = AliasTable[a].name) =>
                  \A i \in Positions(df.cols, AliasTable[a].name) :
                      \A r \in 1..Len(df.rows) : IsNaN(df.rows[r][i])

\* C13: in the table build_merged returns every row has a Country, and no
\* two rows have the same Country.
C13_CountryKeyUnique ==
    pc = "done" =>
        /\ \A k \in 1..Len(merged) : ~IsNaN(merged[k]["Country"])
        /\ \A j, k \in 1..Len(merged) :
              merged[j]["Country"] = merged[k]["Country"] => j = k

\* C14: when the life-expectancy or the peace-index file is not there,
\* build_merged does not raise for it: it returns one row per row of the
\* happiness table, with NaN in the columns the missing file would have
\* given.
C14_MissingSecondaryNotFatal ==
    (/\ absent # {}
     /\ HAPPINESS_PATH \notin absent
     /\ ~RankRaises(Rename(happyFile, HappyColumns))) =>
        /\ pc # "raised"
        /\ pc = "done" =>
              /\ Len(merged) = Len(h)
              /\ \A k \in 1..Len(merged) :
                    /\ LIFE_PATH \in absent =>
                          \A c \in LifeFields : IsNaN(merged[k][c])
                    /\ PEACE_PATH \in absent =>
                          \A c \in PeaceFields : IsNaN(merged[k][c])

\* what build_merged makes of the files as they are
Fresh ==
    LeftMerge(LeftMerge(load_happiness(happyFile), load_life(lifeFile), LifeFields),
              load_peace(peaceFile), PeaceFields)

\* C15: what a loader or build_merged returns is the table derived from the
\* file's contents at the time of the call, whatever calls were made before:
\* no memo kept from an earlier call changes it.
C15_NoStateAcrossCalls ==
    /\ pc = "load_life" =>
          HAPPINESS_PATH \notin absent /\ h = load_happiness(happyFile)
    /\ pc = "load_peace" =>
          LIFE_PATH \notin absent /\ l = load_life(lifeFile)
    /\ pc = "merge" =>
          PEACE_PATH \notin absent /\ p = load_peace(peaceFile)
    /\ pc = "done" =>
          absent = {} /\ merged = Fresh

\* the rows of the file for the Country c that have a Year
DatedRowsOf(c) == {i \in FileRowsOf(c) : ~IsNaN(lifeFile[i]["Year"])}

\* those of them that have the greatest Year of c
LatestRowsOf(c) ==
    {i \in DatedRowsOf(c) :
        \A j \in DatedRowsOf(c) : lifeFile[j]["Year"][1] <= lifeFile[i]["Year"][1]}

\* C16: when several rows of a Country share its greatest Year, the row
\* load_life keeps for the Country is the last of these rows in the file.
C16_LastOfLatestKept ==
    LifeLoaded =>
        \A c \in Countries :
            Cardinality(LatestRowsOf(c)) >= 2 =>
                \E k \in 1..Len(l) :
                    /\ l[k]["Country"] = c
                    /\ IsFileRow(l[k], CHOOSE i \in LatestRowsOf(c) :
                                          \A j \in LatestRowsOf(c) : j <= i)

----------------------------------------------------------------------------
(* Claims about the names of the columns normalize_cols returns.           *)

\* the header picked for the a-th field
Picked(a) == pick(low(raw.cols), AliasTable[a].cands)

Resolved == {a \in 1..Len(AliasTable) : Picked(a) # NoColumn}

\* C17: normalize_cols never picks one raw header for two canonical fields:
\* every field that is resolved has its own entry in mapping, none
\* overwritten by a later field's.
C17_NoHeaderForTwoFields ==
    Mapped =>
        /\ \A a, b \in Resolved : Picked(a) = Picked(b) => a = b
        /\ \A a \in Resolved :
              /\ Picked(a) \in DOMAIN mapping
              /\ mapping[Picked(a)] = AliasTable[a].name
        /\ Cardinality(DOMAIN mapping) = Cardinality(Resolved)

\* two fields resolved, each from its own header
C17_Witness ==
    /\ Normalized
    /\ Cardinality(Resolved) = 2
    /\ \E a, b \in Resolved :
          /\ a # b
          /\ Picked(a) # Picked(b)
          /\ mapping[Picked(a)] = AliasTable[a].name
          /\ mapping[Picked(b)] = AliasTable[b].name

\* C18: when the headers of the raw table are pairwise distinct, so are the
\* names of the columns of the table normalize_cols returns.
C18_ColumnNamesDistinct ==
    (Normalized /\ Distinct(raw.cols)) => Distinct(df.cols)

====
